---- MODULE Spec2Model ----
(***************************************************************************)
(* A model of the storm query runtime of synapse (synapse/lib/storm.py):   *)
(*   - Runtime.allowed / Runtime.elevate  (permission gate, memoized)      *)
(*   - MoveTagCmd.runStormCmd             (tag tree rename)                *)
(*   - NoderefsCmd.runStormCmd / doRefs / getRefs (graph traversal)        *)
(*   - Runtime.iterStormQuery over Limit, Uniq, Count, Spin, Sudo, DelNode *)
(*   - Runtime.getInput                   (the inputs of a query)          *)
(* Each part has its own specification (SpecAuth, SpecTag, SpecRefs,       *)
(* SpecPipe, SpecDel, SpecInput); the variables of the other parts stay at *)
(* their idle values.                                                      *)
(***************************************************************************)
EXTENDS Integers, Sequences, FiniteSets, TLC

VARIABLES
    \* ---- Runtime (permission gate) ----
    runtUser,   \* Runtime.user per query context: "none" or the principal's name
    elevated,   \* Runtime.elevated per query context
    admin,      \* user.admin of the principal
    rules,      \* the principal's allow rules (permission path prefixes)
    memo,       \* the memo of Runtime.allowed: FIFO of cached keys <<context, path>>
    since,      \* key -> insertions made into memo since the key was last cached
                \* (Never: the key's check has not succeeded yet)
    last,       \* the last call of allowed / elevate and its outcome
    nfill,      \* number of fresh permission paths used by bulk checks
    nbulk       \* number of bulk check runs made

    ,
    \* ---- MoveTagCmd (tag rename) ----
    tagdefs,    \* syn:tag nodes: tag name -> [doc, title, isnow]
    nodetags,   \* data nodes: node -> node.tags (tag name -> value)
    retag,      \* the retag dict of the last movetag
    tagargs,    \* (oldtag, newtag) of the last movetag, <<>> before the first
    prevargs,   \* (oldtag, newtag) of the movetag before the last one
    before,     \* [defs, tags]: the store as the last movetag found it
    steps,      \* per data node: the delTag / addTag calls of the last movetag,
                \* in order, each with the node's tags after the call
    taggenr,    \* the upstream (node, path) sequence the last movetag was given
    tagout,     \* what the last movetag yielded, in order
    nmoves      \* number of movetag commands run

    ,
    \* ---- NoderefsCmd (graph traversal) ----
    store,      \* the nodes of the cortex: [form, props, tags], each by buid
    opts,       \* self.opts of the noderefs command
    stream,     \* the upstream (node, path) sequence the command is given
    genr,       \* what is left of the upstream
    visited,    \* the visited set of runStormCmd
    out,        \* what the command has yielded, in order
    enumerated, \* (source index, buid): getRefs was called on the node
    enqueued,   \* (source index, buid): the node was put on newqueue
    prevout,    \* buids yielded by the run before, with degrees one less
    pc          \* where the command is: start, pull, done, error

    ,
    \* ---- the query pipeline (iterStormQuery over a chain of commands) ----
    cmds,       \* the commands of the query, first to last: [name, count, force]
    input,      \* the (node, path) sequence the first command is given
    stg,        \* the generator of each command: where it is and what it holds
    srcpos,     \* number of elements taken from input
    canceled,   \* Runtime.canceled
    delivered,  \* what iterStormQuery has yielded to its consumer, in order
    qstate,     \* the query: run, done, or the exception that ended it
    npulled,    \* number of nodes that reached the loop of iterStormQuery
    nticks,     \* number of calls of Runtime.tick
    cortex,     \* the nodes the snap holds: [form, tags] by buid
    dels        \* buids of the nodes deleted, in deletion order

    ,
    \* ---- Runtime.getInput ----
    inputs,     \* Runtime.inputs: the nodes attached with addInput
    qopts,      \* Runtime.opts: [ndefs, idens]
    qvars,      \* Runtime.vars
    gipc,       \* the generator of getInput: [phase, idx]
    yields      \* what getInput has yielded, in order

authvars == <<runtUser, elevated, admin, rules, memo, since,
              last, nfill, nbulk>>

tagvars == <<tagdefs, nodetags, retag, tagargs, prevargs, before, steps,
             taggenr, tagout, nmoves>>

refvars == <<store, opts, stream, genr, visited, out, enumerated, enqueued,
             prevout, pc>>

pipevars == <<cmds, input, stg, srcpos, canceled, delivered, qstate,
              npulled, nticks, cortex, dels>>

inpvars == <<inputs, qopts, qvars, gipc, yields>>

vars == <<authvars, tagvars, refvars, pipevars, inpvars>>

notauth == <<tagvars, refvars, pipevars, inpvars>>
nottag == <<authvars, refvars, pipevars, inpvars>>
notref == <<authvars, tagvars, pipevars, inpvars>>
notinp == <<authvars, tagvars, refvars, pipevars>>

----------------------------------------------------------------------------
(* Bounds *)

NumCtx == 2          \* query contexts (Runtime instances) alive together
MaxBulk == 1         \* bulk check runs in one behaviour
NumData == 1         \* data nodes in the store of the tag rename
MaxMoves == 2        \* movetag commands run in one behaviour
NumNodes == 3        \* nodes of the small cortexes given to noderefs
ChainLen == 5        \* nodes of the chain-shaped cortexes given to noderefs
MaxDegrees == 3      \* largest --degrees noderefs is run with
MaxCmds == 2         \* commands in the pipeline of a query
MaxInput == 3        \* elements given to the first command of a pipeline
MaxLimit == 2        \* largest count given to limit
NumBuids == 2        \* distinct nodes among the elements of a pipeline
NumPaths == 2        \* distinct paths a node comes with in a pipeline
NumDelNodes == 3     \* nodes given to delnode
MaxAttach == 2       \* nodes attached to a query with addInput
MaxOpts == 2         \* entries of the ndefs and of the idens option

(* Program constants *)
MemoSize == 100      \* @s_cache.memoize(size=100)

----------------------------------------------------------------------------
(***************************************************************************)
(* Runtime: permission gate                                                *)
(***************************************************************************)

Ctxs == 1..NumCtx

NoUser == "none"
Principal == "visi"

\* permission paths as passed to Runtime.allowed(*args)
Perms == { <<"tag:del", "a", "b">>,
           <<"tag:del", "b", "a">> }

\* rules a principal may carry: a rule allows every path it is a prefix of
RuleSet == { <<"tag:del", "a">>, <<"tag:del">> }

DigitStr == <<"0", "1", "2", "3", "4", "5", "6", "7", "8", "9">>

\* the n-th fresh path of a bulk run: the tag:del path of a tag "d.d.d"
FillPerm(n) ==
    <<"tag:del", DigitStr[((n \div 100) % 10) + 1],
                 DigitStr[((n \div 10) % 10) + 1],
                 DigitStr[(n % 10) + 1]>>

\* sizes of the bulk runs (number of tags on the node given to delnode)
FillSizes == {MemoSize - 1}

IsPrefix(r, p) == Len(r) <= Len(p) /\ SubSeq(p, 1, Len(r)) = r

\* user.allowed(args, elev=False): the principal's rules decide
UserAllowed(p) == \E r \in rules : IsPrefix(r, p)

\* a wrong body: elevation is not looked at
AllowedBodyNoElev(c, p) ==
    \/ runtUser[c] = NoUser
    \/ UserAllowed(p)

\* the body of Runtime.allowed: TRUE when it returns, FALSE when it raises AuthDeny
AllowedBody(c, p) ==
    \/ runtUser[c] = NoUser
    \/ elevated[c]
    \/ UserAllowed(p)

InMemo(m, k) == \E i \in 1..Len(m) : m[i] = k

\* the memo: a result is stored under its key; the oldest keys are dropped
\* when more than `size` are held
MemoPutAll(m, ks) ==
    LET m2 == m \o ks
    IN  IF Len(m2) > MemoSize THEN SubSeq(m2, Len(m2) - MemoSize + 1, Len(m2))
        ELSE m2

MemoPut(m, k) == MemoPutAll(m, <<k>>)

\* a wrong key: the path alone, without the Runtime the call is made on
MemoKeyNoSelf(c, p) == <<0, p>>

\* the memo key of a call runt.allowed(*args): the arguments, self included
MemoKey(c, p) == <<c, p>>

\* the calls whose history is kept: (context, path)
Calls == Ctxs \X Perms

Never == 0 - 1

\* one more insertion into the memo, seen from every tracked key
Aged(sn, n) ==
    [k \in Calls |-> IF sn[k] = Never THEN Never
                    ELSE IF sn[k] + n >= MemoSize THEN MemoSize ELSE sn[k] + n]

NoChk == [op |-> "none", c |-> 0, perm |-> <<>>, res |-> "none", tick |-> FALSE]

\* a wrong allowed: the memo also keeps a denial and answers it as a success
allowedMemoDeny(c, p) ==
    LET k   == MemoKey(c, p)
        hit == InMemo(memo, k)
        ok  == hit \/ AllowedBody(c, p)
    IN  /\ memo' = IF ~hit THEN MemoPut(memo, k) ELSE memo
        /\ since' = IF ~hit /\ ok THEN [Aged(since, 1) EXCEPT ![<<c, p>>] = 0]
                     ELSE since
        /\ last' = [op |-> "allowed", c |-> c, perm |-> p,
                    res |-> IF ok THEN "ok" ELSE "AuthDeny",
                    tick |-> ~last.tick]
        /\ UNCHANGED <<runtUser, elevated, admin, rules, nfill, nbulk, notauth>>

\* one call runt.allowed(*p) in context c
allowed(c, p) ==
    LET k   == MemoKey(c, p)
        hit == InMemo(memo, k)
        ok  == hit \/ AllowedBody(c, p)
    IN  /\ memo' = IF ~hit /\ ok THEN MemoPut(memo, k) ELSE memo
        /\ since' = IF ~hit /\ ok THEN [Aged(since, 1) EXCEPT ![<<c, p>>] = 0]
                     ELSE since
        /\ last' = [op |-> "allowed", c |-> c, perm |-> p,
                    res |-> IF ok THEN "ok" ELSE "AuthDeny",
                    tick |-> ~last.tick]
        /\ UNCHANGED <<runtUser, elevated, admin, rules, nfill, nbulk, notauth>>

Allowed == \E c \in Ctxs, p \in Perms : allowed(c, p)

\* n calls runt.allowed('tag:del', ...) in a row for n tags never checked before,
\* as DelNodeCmd makes them for a node carrying n tags; the first denial raises
allowedBulk(c, n) ==
    LET ok == AllowedBody(c, FillPerm(nfill + 1))
        ks == [i \in 1..n |-> MemoKey(c, FillPerm(nfill + i))]
    IN  /\ nbulk < MaxBulk
        /\ nbulk' = nbulk + 1
        /\ nfill' = nfill + n
        /\ memo' = IF ok THEN MemoPutAll(memo, ks) ELSE memo
        /\ since' = IF ok THEN Aged(since, n) ELSE since
        /\ last' = [op |-> "bulk", c |-> c, perm |-> FillPerm(nfill + 1),
                    res |-> IF ok THEN "ok" ELSE "AuthDeny",
                    tick |-> ~last.tick]
        /\ UNCHANGED <<runtUser, elevated, admin, rules, notauth>>

AllowedBulk == \E c \in Ctxs, n \in FillSizes : allowedBulk(c, n)

\* Runtime.elevate
elevate(c) ==
    LET deny == runtUser[c] # NoUser /\ ~admin
    IN  /\ elevated' = IF deny THEN elevated ELSE [elevated EXCEPT ![c] = TRUE]
        /\ last' = [op |-> "elevate", c |-> c, perm |-> <<>>,
                    res |-> IF deny THEN "AuthDeny" ELSE "ok",
                    tick |-> ~last.tick]
        /\ UNCHANGED <<runtUser, admin, rules, memo, since,
                       nfill, nbulk, notauth>>

Elevate == \E c \in Ctxs : elevate(c)

\* SudoCmd.execStormCmd: runt.elevate(), then the upstream is forwarded as it is
execSudo(c) ==
    LET deny == runtUser[c] # NoUser /\ ~admin
    IN  /\ elevated' = IF deny THEN elevated ELSE [elevated EXCEPT ![c] = TRUE]
        /\ last' = [op |-> "sudo", c |-> c, perm |-> <<>>,
                    res |-> IF deny THEN "AuthDeny" ELSE "ok",
                    tick |-> ~last.tick]
        /\ UNCHANGED <<runtUser, admin, rules, memo, since, nfill, nbulk, notauth>>

Sudo == \E c \in Ctxs : execSudo(c)

\* the auth subsystem changes the principal between two steps of a query
SetRule ==
    \E r \in RuleSet :
        /\ rules' = IF r \in rules THEN rules \ {r} ELSE rules \cup {r}
        /\ UNCHANGED <<runtUser, elevated, admin, memo, since,
                       last, nfill, nbulk, notauth>>

SetAdmin ==
    /\ admin' = ~admin
    /\ UNCHANGED <<runtUser, elevated, rules, memo, since,
                   last, nfill, nbulk, notauth>>

----------------------------------------------------------------------------
(***************************************************************************)
(* MoveTagCmd: rename of a tag tree                                        *)
(*                                                                         *)
(* A tag name is a string, modelled as the sequence of its characters.     *)
(***************************************************************************)

None == <<>>

\* code point order of the characters used ('.' sorts before the letters)
CharOrd(ch) == CASE ch = "." -> 0 [] ch = "a" -> 1 [] ch = "b" -> 2 [] OTHER -> 3

Dot(x, y) == x \o <<".">> \o y

ta == <<"a">>
tb == <<"b">>
tab == <<"a", "b">>
ta_b == Dot(ta, tb)

\* the tag names of the initial stores, and the arguments given to movetag
TagNames == {ta, ta_b, tab, tb}
OldArgs == {ta, ta_b}
NewArgs == {ta, ta_b, tb}

\* tag values: (None, None) and a time interval
Vals == {"null", "(100,200)"}

DataNodes == 1..NumData

\* str.startswith
StartsWith(x, pre) == Len(pre) <= Len(x) /\ SubSeq(x, 1, Len(pre)) = pre

\* x[n:]
StrFrom(x, n) == SubSeq(x, n + 1, Len(x))

\* string comparison x < y
RECURSIVE StrLess(_, _)
StrLess(x, y) ==
    IF y = <<>> THEN FALSE
    ELSE IF x = <<>> THEN TRUE
    ELSE IF Head(x) = Head(y) THEN StrLess(Tail(x), Tail(y))
    ELSE CharOrd(Head(x)) < CharOrd(Head(y))

\* a wrong sort: ascending
RECURSIVE SortForward(_)
SortForward(S) ==
    IF S = {} THEN <<>>
    ELSE LET m == CHOOSE x \in S : \A y \in S \ {x} : StrLess(x, y)
         IN  <<m>> \o SortForward(S \ {m})

\* a set of strings as the list sorted in reverse (list.sort(reverse=True))
RECURSIVE SortReverse(_)
SortReverse(S) ==
    IF S = {} THEN <<>>
    ELSE LET m == CHOOSE x \in S : \A y \in S \ {x} : StrLess(y, x)
         IN  <<m>> \o SortReverse(S \ {m})

\* t is tag `old` or a tag nested under it
InTree(t, old) == t = old \/ StartsWith(t, old \o <<".">>)

\* snap.getNodesBy('syn:tag', oldtag, cmpr='^='): the tag definitions whose
\* name is oldtag or has oldtag as a dotted prefix
LiftTagPrefix(defs, old) == {t \in DOMAIN defs : InTree(t, old)}

\* snap.getNodesBy('#oldtag'): the data nodes carrying oldtag or a tag under it
LiftByTag(tags, old) ==
    {n \in DOMAIN tags : \E t \in DOMAIN tags[n] : InTree(t, old)}

NewDef == [doc |-> None, title |-> None, isnow |-> None]

\* snap.addNode('syn:tag', name): the node is made when it does not exist
AddTagNode(defs, name) ==
    IF name \in DOMAIN defs THEN defs ELSE (name :> NewDef) @@ defs

\* node.set(prop, valu) on a syn:tag node
SetDefDoc(defs, name, v) == [defs EXCEPT ![name].doc = v]
SetDefTitle(defs, name, v) == [defs EXCEPT ![name].title = v]
SetDefIsNow(defs, name, v) == [defs EXCEPT ![name].isnow = v]

\* node.delTag(name) / node.addTag(name, valu=valu) on the tags of one node
DelTag(nt, name) == [t \in (DOMAIN nt) \ {name} |-> nt[t]]
AddTag(nt, name, valu) == (name :> valu) @@ nt

\* a wrong round: the exact match is left without isnow
MoveDefNoExact(st, tagstr, oldstr, newstr) ==
    IF tagstr = oldstr
    THEN st
    ELSE LET newtag == newstr \o StrFrom(tagstr, Len(oldstr))
             d1 == AddTagNode(st.defs, newtag)
         IN  [defs |-> SetDefIsNow(d1, tagstr, newtag),
              retag |-> (tagstr :> newtag) @@ st.retag]

\* one round of the first loop of MoveTagCmd.runStormCmd, for the syn:tag node
\* `tagstr`; st = [defs, retag]
MoveDef(st, tagstr, oldstr, newstr) ==
    IF tagstr = oldstr
    THEN [st EXCEPT !.defs = SetDefIsNow(st.defs, tagstr, newstr)]
    ELSE LET newtag == newstr \o StrFrom(tagstr, Len(oldstr))
             d1 == AddTagNode(st.defs, newtag)
             olddoc == d1[tagstr].doc
             d2 == IF olddoc # None THEN SetDefDoc(d1, newtag, olddoc) ELSE d1
             oldtitle == d2[tagstr].title
             d3 == IF oldtitle # None THEN SetDefTitle(d2, newtag, oldtitle) ELSE d2
         IN  [defs |-> SetDefIsNow(d3, tagstr, newtag),
              retag |-> (tagstr :> newtag) @@ st.retag]

\* a wrong first loop: the exact match ends the loop
RECURSIVE MoveDefsBreak(_, _, _, _)
MoveDefsBreak(st, order, oldstr, newstr) ==
    IF order = <<>> THEN st
    ELSE IF Head(order) = oldstr THEN MoveDef(st, Head(order), oldstr, newstr)
    ELSE MoveDefsBreak(MoveDef(st, Head(order), oldstr, newstr), Tail(order),
                       oldstr, newstr)

\* the first loop, over the lifted syn:tag nodes in the order `order`
RECURSIVE MoveDefs(_, _, _, _)
MoveDefs(st, order, oldstr, newstr) ==
    IF order = <<>> THEN st
    ELSE MoveDefs(MoveDef(st, Head(order), oldstr, newstr), Tail(order),
                  oldstr, newstr)

\* a wrong inner loop: node.addTag(newt) without the value
RECURSIVE ReTagNoValu(_, _, _, _)
ReTagNoValu(nt, todo, orig, rt) ==
    IF todo = <<>> THEN nt
    ELSE LET name == Head(todo)
         IN  IF name \notin DOMAIN rt THEN ReTagNoValu(nt, Tail(todo), orig, rt)
             ELSE ReTagNoValu(AddTag(DelTag(nt, name), rt[name], "null"),
                              Tail(todo), orig, rt)

\* the inner loop of the second loop: `todo` is the sorted list of the names of
\* the node's tags, `orig` the node's tags when the list was made
RECURSIVE ReTag(_, _, _, _)
ReTag(nt, todo, orig, rt) ==
    IF todo = <<>> THEN nt
    ELSE LET name == Head(todo)
         IN  IF name \notin DOMAIN rt THEN ReTag(nt, Tail(todo), orig, rt)
             ELSE ReTag(AddTag(DelTag(nt, name), rt[name], orig[name]),
                        Tail(todo), orig, rt)

\* the second loop of MoveTagCmd.runStormCmd
MoveTags(tags, oldstr, rt) ==
    [n \in DOMAIN tags |->
        IF n \in LiftByTag(tags, oldstr)
        THEN ReTag(tags[n], SortReverse(DOMAIN tags[n]), tags[n], rt)
        ELSE tags[n]]

\* the calls the inner loop makes on one node, in order: each delTag and addTag
\* with the tags of the node after it
RECURSIVE ReTagSteps(_, _, _, _)
ReTagSteps(nt, todo, orig, rt) ==
    IF todo = <<>> THEN <<>>
    ELSE LET name == Head(todo)
         IN  IF name \notin DOMAIN rt THEN ReTagSteps(nt, Tail(todo), orig, rt)
             ELSE LET d == DelTag(nt, name)
                      a == AddTag(d, rt[name], orig[name])
                  IN  <<[op |-> "delTag", name |-> name, tags |-> d],
                        [op |-> "addTag", name |-> rt[name], tags |-> a]>>
                      \o ReTagSteps(a, Tail(todo), orig, rt)

\* the calls of the second loop, per data node
MoveSteps(tags, oldstr, rt) ==
    [n \in DOMAIN tags |->
        IF n \in LiftByTag(tags, oldstr)
        THEN ReTagSteps(tags[n], SortReverse(DOMAIN tags[n]), tags[n], rt)
        ELSE <<>>]

\* the orders in which a lazy lift may hand out the set S
Orders(S) ==
    {o \in [1..Cardinality(S) -> S] : \A i, j \in 1..Cardinality(S) : i # j => o[i] # o[j]}

\* the upstream sequences given to movetag: (node, path) pairs
TagStreams == {<<>>, << <<1, "p1">>, <<1, "p2">> >>}

\* a wrong last loop: nothing of the upstream is yielded
ForwardNone(g) == <<>>

\* the last loop of MoveTagCmd.runStormCmd: every (node, path) of genr g is
\* yielded as it came
Forward(g) == [i \in 1..Len(g) |-> <<g[i][1], g[i][2]>>]

\* MoveTagCmd.runStormCmd with oldtag, newtag (both already normal tag names)
movetag(oldtag, newtag) ==
    /\ nmoves < MaxMoves
    /\ LET d0 == AddTagNode(AddTagNode(tagdefs, oldtag), newtag)
           todo == LiftTagPrefix(d0, oldtag)
       IN  \E order \in Orders(todo) :
             LET st == MoveDefs([defs |-> d0, retag |-> (oldtag :> newtag)],
                                order, oldtag, newtag)
             IN  /\ tagdefs' = st.defs
                 /\ retag' = st.retag
                 /\ nodetags' = MoveTags(nodetags, oldtag, st.retag)
                 /\ steps' = MoveSteps(nodetags, oldtag, st.retag)
    /\ \E g \in TagStreams : taggenr' = g /\ tagout' = Forward(g)
    /\ before' = [defs |-> tagdefs, tags |-> nodetags]
    /\ prevargs' = tagargs
    /\ tagargs' = <<oldtag, newtag>>
    /\ nmoves' = nmoves + 1
    /\ UNCHANGED nottag

MoveTag == \E o \in OldArgs, n \in NewArgs : movetag(o, n)

----------------------------------------------------------------------------
(***************************************************************************)
(* NoderefsCmd: degree-bounded traversal of the references of a node       *)
(*                                                                         *)
(* The data model of the cortex: forms fa and fb, each with a secondary    *)
(* property `ref` of type fa, and the edge form `edge` with the Ndef       *)
(* properties n1 and n2.  The primary value of a node is, in the model,    *)
(* its buid, so that its ndef is (form, buid).  No property of the model   *)
(* has the NodeProp type.                                                  *)
(***************************************************************************)

Forms == {"fa", "fb", "edge"}

Nodes == DOMAIN store.form

Ndef(n) == <<store.form[n], n>>

\* form.props, in the order node.props.items() hands them out
FormProps(form) == IF form = "edge" THEN <<"n1", "n2">> ELSE <<"ref">>

\* the name of the type of a property: a form name, or "ndef"
PropType(form, name) == IF form = "edge" THEN "ndef" ELSE "fa"

\* snap.model.propsbytype: type name -> the (form, prop) typed with it
PropsByType(type) ==
    IF type = "fa" THEN << <<"fa", "ref">>, <<"fb", "ref">> >> ELSE <<>>

\* self.ndef_props: the properties of the Ndef type
NdefProps == << <<"edge", "n1">>, <<"edge", "n2">> >>

\* isinstance(node.form.type, s_types.Edge)
IsEdge(n) == store.form[n] = "edge"

HasProp(n, name) == name \in DOMAIN store.props[n]

NoNode == 0

\* snap.getNodeByNdef(ndef): the node, or None
GetNodeByNdef(ndef) ==
    IF ndef[2] \in Nodes /\ store.form[ndef[2]] = ndef[1] THEN ndef[2] ELSE NoNode

\* a set of buids as the list a lift hands them out in
RECURSIVE Listed(_)
Listed(S) ==
    IF S = {} THEN <<>>
    ELSE LET m == CHOOSE x \in S : \A y \in S : x <= y
         IN  <<m>> \o Listed(S \ {m})

\* snap.getNodesBy(prop.full, valu): the nodes of the form whose property is valu
GetNodesBy(fp, valu) ==
    Listed({n \in Nodes : /\ store.form[n] = fp[1]
                          /\ HasProp(n, fp[2])
                          /\ store.props[n][fp[2]] = valu})

RECURSIVE Flat(_)
Flat(ss) == IF ss = <<>> THEN <<>> ELSE Head(ss) \o Flat(Tail(ss))

\* getRefs, first loop: pivot out to the properties of the node which are forms
PivotOut(src) ==
    LET form == store.form[src]
        one(name) ==
            IF ~HasProp(src, name) THEN <<>>
            ELSE LET valu == store.props[src][name]
                     pivo == IF PropType(form, name) = "ndef"
                             THEN GetNodeByNdef(valu)
                             ELSE IF PropType(form, name) \in Forms
                                  THEN GetNodeByNdef(<<PropType(form, name), valu>>)
                                  ELSE NoNode
                 IN  IF pivo = NoNode THEN <<>> ELSE <<pivo>>
    IN  Flat([i \in 1..Len(FormProps(form)) |-> one(FormProps(form)[i])])

\* getRefs, second loop: pivot in from the properties typed like the node
PivotIn(src) ==
    LET ps == PropsByType(store.form[src])
    IN  Flat([i \in 1..Len(ps) |-> GetNodesBy(ps[i], src)])

\* getRefs, third loop: the nodes holding the ndef of the node in an Ndef
\* property; with --traverse-edge an edge is crossed to its other side
PivotNdef(src) ==
    LET cross(pivo) ==
            IF opts.traverse_edge /\ IsEdge(pivo)
            THEN IF Ndef(src) = store.props[pivo]["n1"]
                 THEN LET npivo == GetNodeByNdef(store.props[pivo]["n2"])
                      IN  IF npivo = NoNode THEN <<>> ELSE <<npivo>>
                 ELSE IF Ndef(src) = store.props[pivo]["n2"]
                 THEN LET npivo == GetNodeByNdef(store.props[pivo]["n1"])
                      IN  IF npivo = NoNode THEN <<>> ELSE <<npivo>>
                 ELSE <<>>
            ELSE <<pivo>>
        one(fp) == LET got == GetNodesBy(fp, Ndef(src))
                   IN  Flat([i \in 1..Len(got) |-> cross(got[i])])
    IN  Flat([i \in 1..Len(NdefProps) |-> one(NdefProps[i])])

\* a wrong getRefs: a property naming a node that is not there ends it
GetRefsStop(src) ==
    IF Len(PivotOut(src)) < Cardinality(DOMAIN store.props[src]) THEN <<>>
    ELSE PivotOut(src) \o PivotIn(src) \o PivotNdef(src)

\* NoderefsCmd.getRefs: the buids it yields for srcnode, in order (each comes
\* with the path srcpath.fork(pivo))
GetRefs(src) == PivotOut(src) \o PivotIn(src) \o PivotNdef(src)

\* the tests of doRefs on a candidate
OmitFormNever(n) == FALSE

OmitForm(n) == store.form[n] \in opts.omit_form
OmitTag(n) == opts.omit_tag \cap store.tags[n] # {}
OmitTravFormNever(n) == FALSE

OmitTravForm(n) == store.form[n] \in opts.omit_traversal_form
OmitTravTag(n) == opts.omit_traversal_tag \cap store.tags[n] # {}

\* visited.add(pnode.buid)
MarkNone(vis, n) == vis

Mark(vis, n) == vis \cup {n}

\* acc = [visited, yields, newq, enq]: the inner for loop of doRefs over the
\* candidates `cands` of the node whose path is spath, in round `round`
RECURSIVE ForRefs(_, _, _, _)
ForRefs(acc, cands, spath, round) ==
    IF cands = <<>> THEN acc
    ELSE LET pnode == Head(cands)
             ppath == Append(spath, pnode)
             seen == [acc EXCEPT !.visited = Mark(acc.visited, pnode)]
             yielded == [seen EXCEPT !.yields =
                            Append(seen.yields,
                                   [buid |-> pnode, path |-> ppath, round |-> round])]
             next ==
                IF pnode \in acc.visited THEN acc
                ELSE IF OmitForm(pnode) THEN seen
                ELSE IF OmitTag(pnode) THEN seen
                ELSE IF OmitTravForm(pnode) THEN yielded
                ELSE IF OmitTravTag(pnode) THEN yielded
                ELSE [yielded EXCEPT !.newq = Append(yielded.newq, <<pnode, ppath>>),
                                     !.enq = yielded.enq \cup {pnode}]
         IN  ForRefs(next, Tail(cands), spath, round)

\* the while True loop of doRefs: srcqueue is emptied from its right end
RECURSIVE PopQueue(_, _, _)
PopQueue(acc, srcqueue, round) ==
    IF srcqueue = <<>> THEN acc
    ELSE LET item == srcqueue[Len(srcqueue)]
             acc1 == [acc EXCEPT !.called = acc.called \cup {item[1]}]
         IN  PopQueue(ForRefs(acc1, GetRefs(item[1]), item[2], round),
                      SubSeq(srcqueue, 1, Len(srcqueue) - 1), round)

RECURSIVE RoundsLast(_, _, _, _)
\* a wrong loop: what a round yields replaces what the rounds before yielded
RoundsLast(acc, srcqueue, degrees, round) ==
    IF degrees = 0 THEN acc
    ELSE LET acc1 == PopQueue([acc EXCEPT !.newq = <<>>, !.yields = <<>>],
                              srcqueue, round)
         IN  RoundsLast(acc1, acc1.newq, degrees - 1, round + 1)

\* the while degrees loop of doRefs
RECURSIVE Rounds(_, _, _, _)
Rounds(acc, srcqueue, degrees, round) ==
    IF degrees = 0 THEN acc
    ELSE LET acc1 == PopQueue([acc EXCEPT !.newq = <<>>], srcqueue, round)
         IN  Rounds(acc1, acc1.newq, degrees - 1, round + 1)

\* a wrong doRefs: one round more than degrees
DoRefsExtra(srcnode, srcpath, vis) ==
    Rounds([visited |-> vis, yields |-> <<>>, newq |-> <<>>, enq |-> {},
            called |-> {}],
           << <<srcnode, srcpath>> >>, opts.degrees + 1, 1)

\* NoderefsCmd.doRefs(srcnode, srcpath, visited)
DoRefs(srcnode, srcpath, vis) ==
    Rounds([visited |-> vis, yields |-> <<>>, newq |-> <<>>, enq |-> {},
            called |-> {}],
           << <<srcnode, srcpath>> >>, opts.degrees, 1)

\* the visited set a source starts with: a new one unless --unique
StartVisitedKeep(vis) == vis

StartVisited(vis) == IF opts.unique = FALSE THEN {} ELSE vis

\* a wrong start: degrees is not checked
StartNoCheck ==
    /\ pc = "start"
    /\ pc' = "pull"
    /\ visited' = {}
    /\ UNCHANGED <<store, opts, stream, genr, out, enumerated, enqueued, prevout>>
    /\ UNCHANGED notref

\* runStormCmd up to its loop: the options are read and degrees is checked
Start ==
    /\ pc = "start"
    /\ pc' = IF opts.degrees < 1 THEN "error" ELSE "pull"
    /\ visited' = {}
    /\ UNCHANGED <<store, opts, stream, genr, out, enumerated, enqueued, prevout>>
    /\ UNCHANGED notref

\* a wrong round: the --join yield comes after the references of the source
PullSourceJoinLast ==
    /\ pc = "pull"
    /\ genr # <<>>
    /\ LET node == Head(genr)[1]
           path == Head(genr)[2]
           k == Len(stream) - Len(genr) + 1
           joined == IF opts.join
                     THEN <<[buid |-> node, path |-> path, round |-> 0,
                             src |-> k, kind |-> "join"]>>
                     ELSE <<>>
           res == DoRefs(node, path, StartVisited(visited) \cup {node})
       IN  /\ out' = out \o
                     [i \in 1..Len(res.yields) |->
                        [buid |-> res.yields[i].buid, path |-> res.yields[i].path,
                         round |-> res.yields[i].round, src |-> k, kind |-> "ref"]]
                     \o joined
           /\ visited' = res.visited
           /\ enumerated' = enumerated \cup {<<k, n>> : n \in res.called}
           /\ enqueued' = enqueued \cup {<<k, n>> : n \in res.enq}
    /\ genr' = Tail(genr)
    /\ UNCHANGED <<store, opts, stream, prevout, pc>>
    /\ UNCHANGED notref

\* one round of the loop of runStormCmd: a (node, path) is pulled from genr,
\* yielded with --join, and its references are yielded by doRefs
PullSource ==
    /\ pc = "pull"
    /\ genr # <<>>
    /\ LET node == Head(genr)[1]
           path == Head(genr)[2]
           k == Len(stream) - Len(genr) + 1
           joined == IF opts.join
                     THEN <<[buid |-> node, path |-> path, round |-> 0,
                             src |-> k, kind |-> "join"]>>
                     ELSE <<>>
           res == DoRefs(node, path, StartVisited(visited) \cup {node})
       IN  /\ out' = out \o joined \o
                     [i \in 1..Len(res.yields) |->
                        [buid |-> res.yields[i].buid, path |-> res.yields[i].path,
                         round |-> res.yields[i].round, src |-> k, kind |-> "ref"]]
           /\ visited' = res.visited
           /\ enumerated' = enumerated \cup {<<k, n>> : n \in res.called}
           /\ enqueued' = enqueued \cup {<<k, n>> : n \in res.enq}
    /\ genr' = Tail(genr)
    /\ UNCHANGED <<store, opts, stream, prevout, pc>>
    /\ UNCHANGED notref

\* genr is exhausted: the command is done
Finish ==
    /\ pc = "pull"
    /\ genr = <<>>
    /\ pc' = "done"
    /\ UNCHANGED <<store, opts, stream, genr, visited, out, enumerated, enqueued,
                   prevout>>
    /\ UNCHANGED notref

OutSet == {out[i].buid : i \in 1..Len(out)}

\* the same command is run again on the same cortex and upstream, with degrees
\* one larger
Rerun ==
    /\ pc \in {"done", "error"}
    /\ opts.degrees < MaxDegrees
    /\ opts' = [opts EXCEPT !.degrees = opts.degrees + 1]
    /\ prevout' = OutSet
    /\ genr' = stream
    /\ visited' = {}
    /\ out' = <<>>
    /\ enumerated' = {}
    /\ enqueued' = {}
    /\ pc' = "start"
    /\ UNCHANGED <<store, stream>>
    /\ UNCHANGED notref

----------------------------------------------------------------------------
(***************************************************************************)
(* The query pipeline                                                      *)
(*                                                                         *)
(* A query is a chain of commands, each a generator over the generator of  *)
(* the command before it; Runtime.iterStormQuery pulls from the last one.  *)
(* A generator runs only when its consumer asks for the next element: it   *)
(* is "new" until the first demand, "run" while suspended at a yield, and  *)
(* "done" once it has returned or raised.  An element is (buid, path).     *)
(***************************************************************************)

\* the Runtime of the running query, among the contexts of the gate
QueryCtx == 1

\* what a demand on a generator gives: an element, the end, or an exception
Item(e) == [k |-> "item", e |-> e]
End == [k |-> "end", e |-> <<>>]
Raise(x) == [k |-> "raise", e |-> <<x>>]

\* a generator that has not been asked for anything yet
NewGen == [at |-> "new", count |-> 0, buidset |-> {},
           pulled |-> <<>>, yielded |-> <<>>, printed |-> <<>>]

\* what one demand of the query may change
PS == [stg |-> stg, srcpos |-> srcpos, elev |-> elevated[QueryCtx],
       memo |-> memo, dels |-> dels]

RECURSIVE Gen(_, _)

\* command i asks its upstream for the next element
Pull(i, ps) ==
    LET g == Gen(i - 1, ps)
    IN  IF g.r.k = "item"
        THEN [ps |-> [g.ps EXCEPT !.stg[i].pulled = Append(@, g.r.e)], r |-> g.r]
        ELSE g

\* command i yields e / returns / raises x
Yield(ps, i, e) ==
    [ps |-> [ps EXCEPT !.stg[i].at = "run", !.stg[i].yielded = Append(@, e)],
     r |-> Item(e)]

Return(ps, i) == [ps |-> [ps EXCEPT !.stg[i].at = "done"], r |-> End]

Throw(ps, i, x) == [ps |-> [ps EXCEPT !.stg[i].at = "done"], r |-> Raise(x)]

\* an exception of the upstream passes through command i
Pass(ps, i, r) == [ps |-> [ps EXCEPT !.stg[i].at = "done"], r |-> r]

\* LimitCmd.runStormCmd: one demand.  enumerate(genr) takes the next element
\* from the upstream first, and the count is tested after that
LimitNext(i, ps) ==
    LET g == Pull(i, ps)
        count == ps.stg[i].count
    IN  CASE g.r.k = "item" ->
               IF count >= cmds[i].count
               THEN Return([g.ps EXCEPT !.stg[i].printed =
                                Append(@, <<"limit reached", cmds[i].count>>)], i)
               ELSE Yield([g.ps EXCEPT !.stg[i].count = count + 1], i, g.r.e)
          [] g.r.k = "end" -> Return(g.ps, i)
          [] OTHER -> Pass(g.ps, i, g.r)

RECURSIVE UniqByPath(_, _)
\* a wrong uniq: the whole (node, path) is the key
UniqByPath(i, ps) ==
    LET g == Pull(i, ps)
    IN  CASE g.r.k = "item" ->
               IF g.r.e \in g.ps.stg[i].buidset
               THEN UniqByPath(i, g.ps)
               ELSE Yield([g.ps EXCEPT !.stg[i].buidset = @ \cup {g.r.e}], i, g.r.e)
          [] g.r.k = "end" -> Return(g.ps, i)
          [] OTHER -> Pass(g.ps, i, g.r)

RECURSIVE UniqNext(_, _)
\* UniqCmd.runStormCmd: one demand
UniqNext(i, ps) ==
    LET g == Pull(i, ps)
    IN  CASE g.r.k = "item" ->
               IF g.r.e[1] \in g.ps.stg[i].buidset
               THEN UniqNext(i, g.ps)
               ELSE Yield([g.ps EXCEPT !.stg[i].buidset = @ \cup {g.r.e[1]}], i, g.r.e)
          [] g.r.k = "end" -> Return(g.ps, i)
          [] OTHER -> Pass(g.ps, i, g.r)

\* CountCmd.runStormCmd: one demand
CountNext(i, ps) ==
    LET g == Pull(i, ps)
    IN  CASE g.r.k = "item" ->
               Yield([g.ps EXCEPT !.stg[i].count = @ + 1], i, g.r.e)
          [] g.r.k = "end" ->
               Return([g.ps EXCEPT !.stg[i].printed =
                          Append(@, <<"Counted", g.ps.stg[i].count>>)], i)
          [] OTHER -> Pass(g.ps, i, g.r)

RECURSIVE SpinNext(_, _)
\* SpinCmd.runStormCmd: one demand
SpinNext(i, ps) ==
    LET g == Pull(i, ps)
    IN  CASE g.r.k = "item" -> SpinNext(i, g.ps)
          [] g.r.k = "end" -> Return(g.ps, i)
          [] OTHER -> Pass(g.ps, i, g.r)

\* a wrong elevate: every principal may elevate
elevateAny == "ok"

\* Runtime.elevate of the running query: "ok", or the exception it raises
elevateRes ==
    IF runtUser[QueryCtx] # NoUser /\ ~admin THEN "AuthDeny" ELSE "ok"

\* SudoCmd.execStormCmd: one demand
SudoNext(i, ps) ==
    IF ps.stg[i].at = "new" /\ elevateRes # "ok"
    THEN Throw(ps, i, elevateRes)
    ELSE LET ps1 == IF ps.stg[i].at = "new" THEN [ps EXCEPT !.elev = TRUE] ELSE ps
             g == Pull(i, ps1)
         IN  CASE g.r.k = "item" -> Yield(g.ps, i, g.r.e)
               [] g.r.k = "end" -> Return(g.ps, i)
               [] OTHER -> Pass(g.ps, i, g.r)

\* a wrong list of checks: the tags of the node are not checked
DelPermsNoTags(n) == << <<"node:del", cortex.form[n]>> >>

\* the permission paths DelNodeCmd checks for node n, in the order of the checks
DelPerms(n) ==
    [j \in 1..Len(cortex.tags[n]) |-> <<"tag:del">> \o cortex.tags[n][j]]
        \o << <<"node:del", cortex.form[n]>> >>

RECURSIVE RunChecks(_, _, _)
\* the calls runt.allowed(*p) for the paths ps in a row, made with memo m and
\* elevation elev: the memo they leave and whether all of them returned
RunChecks(m, elev, ps) ==
    IF ps = <<>> THEN [memo |-> m, ok |-> TRUE]
    ELSE LET k == MemoKey(QueryCtx, Head(ps))
         IN  IF InMemo(m, k) THEN RunChecks(m, elev, Tail(ps))
             ELSE IF \/ runtUser[QueryCtx] = NoUser
                     \/ elev
                     \/ UserAllowed(Head(ps))
                  THEN RunChecks(MemoPut(m, k), elev, Tail(ps))
                  ELSE [memo |-> m, ok |-> FALSE]

\* a wrong force test: force is refused to nobody
ForceDenyNever(i) == FALSE

\* DelNodeCmd.execStormCmd: --force is for admins
ForceDeny(i) ==
    cmds[i].force /\ runtUser[QueryCtx] # NoUser /\ ~admin

RECURSIVE DelNodeLoop(_, _)
\* DelNodeCmd.execStormCmd: the loop over the upstream
DelNodeLoop(i, ps) ==
    LET g == Pull(i, ps)
    IN  CASE g.r.k = "item" ->
               LET n == g.r.e[1]
                   c == RunChecks(g.ps.memo, g.ps.elev, DelPerms(n))
               IN  IF ~c.ok
                   THEN Throw([g.ps EXCEPT !.memo = c.memo], i, "AuthDeny")
                   ELSE DelNodeLoop(i, [g.ps EXCEPT !.memo = c.memo,
                                                    !.dels = Append(@, n)])
          [] g.r.k = "end" -> Return(g.ps, i)
          [] OTHER -> Pass(g.ps, i, g.r)

\* DelNodeCmd.execStormCmd: one demand (it yields nothing)
DelNodeNext(i, ps) ==
    IF ps.stg[i].at = "new" /\ ForceDeny(i)
    THEN Throw(ps, i, "AuthDeny")
    ELSE DelNodeLoop(i, ps)

\* one demand on generator i; generator 0 hands out the input
Gen(i, ps) ==
    IF i = 0
    THEN IF ps.srcpos < Len(input)
         THEN [ps |-> [ps EXCEPT !.srcpos = @ + 1], r |-> Item(input[ps.srcpos + 1])]
         ELSE [ps |-> ps, r |-> End]
    ELSE IF ps.stg[i].at = "done" THEN [ps |-> ps, r |-> End]
    ELSE CASE cmds[i].name = "limit" -> LimitNext(i, ps)
           [] cmds[i].name = "uniq" -> UniqNext(i, ps)
           [] cmds[i].name = "count" -> CountNext(i, ps)
           [] cmds[i].name = "spin" -> SpinNext(i, ps)
           [] cmds[i].name = "sudo" -> SudoNext(i, ps)
           [] cmds[i].name = "delnode" -> DelNodeNext(i, ps)

\* a wrong tick: the flag is not looked at
tickNever(flag) == "ok"

\* Runtime.tick: "ok", or the exception it raises
tick(flag) == IF flag THEN "Canceled" ELSE "ok"

\* Runtime.iterStormQuery: its consumer asks for the next (node, path)
iterStormQuery ==
    /\ qstate = "run"
    /\ LET g == Gen(Len(cmds), PS)
       IN  /\ stg' = g.ps.stg
           /\ srcpos' = g.ps.srcpos
           /\ elevated' = [elevated EXCEPT ![QueryCtx] = g.ps.elev]
           /\ memo' = g.ps.memo
           /\ dels' = g.ps.dels
           /\ IF g.r.k = "item"
              THEN /\ npulled' = npulled + 1
                   /\ nticks' = nticks + 1
                   /\ IF tick(canceled) = "ok"
                      THEN /\ delivered' = Append(delivered, g.r.e)
                           /\ qstate' = "run"
                      ELSE /\ delivered' = delivered
                           /\ qstate' = tick(canceled)
              ELSE /\ UNCHANGED <<npulled, nticks, delivered>>
                   /\ qstate' = IF g.r.k = "end" THEN "done" ELSE g.r.e[1]
    /\ UNCHANGED <<cmds, input, canceled, cortex>>
    /\ UNCHANGED <<runtUser, admin, rules, since, last, nfill, nbulk>>
    /\ UNCHANGED <<tagvars, refvars, inpvars>>

\* Runtime.cancel, called from outside while the query runs
cancel ==
    /\ qstate = "run"
    /\ ~canceled
    /\ canceled' = TRUE
    /\ UNCHANGED <<cmds, input, stg, srcpos, delivered, qstate, npulled,
                   nticks, cortex, dels>>
    /\ UNCHANGED <<authvars, tagvars, refvars, inpvars>>

----------------------------------------------------------------------------
(***************************************************************************)
(* Runtime.getInput: the inputs of a query                                 *)
(*                                                                         *)
(* A node is named by the number its one-byte buid holds; its primary      *)
(* value is that number, so that its ndef is (form, number).  An iden is a *)
(* hex string, modelled as the sequence of its characters.                 *)
(***************************************************************************)

\* the values of the query variable x
VarVals == {"v1", "v2"}

\* the nodes the snap holds: the form of each, by buid
InputSnap == (1 :> "fa") @@ (10 :> "fb")

\* the value of a hex digit, in either case
HexVal(ch) ==
    CASE ch = "0" -> 0 [] ch = "1" -> 1 [] ch = "2" -> 2
      [] ch = "a" -> 10 [] ch = "A" -> 10

\* s_common.uhex: the bytes a hex string stands for
uhex(iden) ==
    [j \in 1..(Len(iden) \div 2) |-> 16 * HexVal(iden[2 * j - 1]) + HexVal(iden[2 * j])]

\* snap.getNodeByNdef: the node with that form and primary value, or None
getNodeByNdef(ndef) ==
    IF ndef[2] \in DOMAIN InputSnap /\ InputSnap[ndef[2]] = ndef[1]
    THEN ndef[2] ELSE NoNode

\* snap.getNodeByBuid: the node with that buid, or None
getNodeByBuid(buid) ==
    IF Len(buid) = 1 /\ buid[1] \in DOMAIN InputSnap THEN buid[1] ELSE NoNode

\* a wrong initPath: the path starts without the variables of the query
initPathNoVars(node) == [vars |-> <<>>, nodes |-> <<node>>]

\* Runtime.initPath
initPath(node) == [vars |-> qvars, nodes |-> <<node>>]

\* a wrong order of the loops: the idens before the ndefs
LoopsIdensFirst == <<"inputs", "idens", "ndefs">>

\* the three loops of getInput, in the order of the code
Loops == <<"inputs", "ndefs", "idens">>

\* what loop ph of getInput iterates over
Entries(ph) ==
    CASE Loops[ph] = "inputs" -> inputs
      [] Loops[ph] = "ndefs" -> qopts.ndefs
      [] Loops[ph] = "idens" -> qopts.idens

\* the node loop ph finds for its entry e, or None
Resolve(ph, e) ==
    CASE Loops[ph] = "inputs" -> e
      [] Loops[ph] = "ndefs" -> getNodeByNdef(e)
      [] Loops[ph] = "idens" -> getNodeByBuid(uhex(e))

RECURSIVE Advance(_, _)
\* getInput runs on from entry idx of loop ph to its next yield or to its end
Advance(ph, idx) ==
    IF ph > Len(Loops) THEN [phase |-> ph, idx |-> 0, node |-> NoNode]
    ELSE IF idx >= Len(Entries(ph)) THEN Advance(ph + 1, 0)
    ELSE LET node == Resolve(ph, Entries(ph)[idx + 1])
         IN  IF node # NoNode
             THEN [phase |-> ph, idx |-> idx + 1, node |-> node]
             ELSE Advance(ph, idx + 1)

\* Runtime.getInput: its consumer asks for the next (node, path)
getInput ==
    /\ gipc.phase <= Len(Loops)
    /\ LET a == Advance(gipc.phase, gipc.idx)
       IN  /\ gipc' = [phase |-> a.phase, idx |-> a.idx]
           /\ yields' = IF a.node # NoNode
                        THEN Append(yields, [node |-> a.node, path |-> initPath(a.node)])
                        ELSE yields
    /\ UNCHANGED <<inputs, qopts, qvars>>
    /\ UNCHANGED notinp

\* Runtime.addInput, called before the query is run
addInput ==
    /\ gipc = [phase |-> 1, idx |-> 0]
    /\ Len(inputs) < MaxAttach
    /\ \E node \in DOMAIN InputSnap : inputs' = Append(inputs, node)
    /\ UNCHANGED <<qopts, qvars, gipc, yields>>
    /\ UNCHANGED notinp

\* the query assigns a variable between two demands
setVar ==
    /\ gipc.phase <= Len(Loops)
    /\ \E v \in VarVals : qvars' = [qvars EXCEPT !.x = v] /\ qvars' # qvars
    /\ UNCHANGED <<inputs, qopts, gipc, yields>>
    /\ UNCHANGED notinp

----------------------------------------------------------------------------
(***************************************************************************)
(* Specifications                                                          *)
(***************************************************************************)

IdleAuth ==
    /\ runtUser = [c \in Ctxs |-> NoUser]
    /\ elevated = [c \in Ctxs |-> FALSE]
    /\ admin = FALSE
    /\ rules = {}
    /\ memo = <<>>
    /\ since = [k \in Calls |-> Never]
    /\ last = NoChk
    /\ nfill = 0
    /\ nbulk = 0

IdleTag ==
    /\ tagdefs = <<>>
    /\ nodetags = <<>>
    /\ retag = <<>>
    /\ tagargs = <<>>
    /\ prevargs = <<>>
    /\ before = <<>>
    /\ steps = <<>>
    /\ taggenr = <<>>
    /\ tagout = <<>>
    /\ nmoves = 0

IdleRefs ==
    /\ store = <<>>
    /\ opts = <<>>
    /\ stream = <<>>
    /\ genr = <<>>
    /\ visited = {}
    /\ out = <<>>
    /\ enumerated = {}
    /\ enqueued = {}
    /\ prevout = {}
    /\ pc = "idle"

IdlePipe ==
    /\ cmds = <<>>
    /\ input = <<>>
    /\ stg = <<>>
    /\ srcpos = 0
    /\ canceled = FALSE
    /\ delivered = <<>>
    /\ qstate = "idle"
    /\ npulled = 0
    /\ nticks = 0
    /\ cortex = <<>>
    /\ dels = <<>>

IdleInput ==
    /\ inputs = <<>>
    /\ qopts = <<>>
    /\ qvars = <<>>
    /\ gipc = <<>>
    /\ yields = <<>>

InitAuth ==
    /\ IdleTag
    /\ IdleRefs
    /\ IdlePipe
    /\ IdleInput
    /\ runtUser \in {[c \in Ctxs |-> IF c = 1 THEN u ELSE Principal] :
                       u \in {NoUser, Principal}}
    /\ elevated = [c \in Ctxs |-> FALSE]
    /\ admin = FALSE
    /\ rules \in SUBSET RuleSet
    /\ memo = <<>>
    /\ since = [k \in Calls |-> Never]
    /\ last = NoChk
    /\ nfill = 0
    /\ nbulk = 0

NextAuth == Allowed \/ Elevate \/ Sudo \/ SetRule \/ SetAdmin

\* queries of present and absent principals, with elevation
SpecAuth == InitAuth /\ [][NextAuth]_vars

InitMemo ==
    /\ InitAuth
    /\ \A c \in Ctxs : runtUser[c] = Principal

NextMemo == Allowed \/ AllowedBulk \/ SetRule

\* queries of a present principal that check enough paths to fill the memo
SpecMemo == InitMemo /\ [][NextMemo]_vars

\* the tags a data node may carry at the start: every tag with its parents
TagSets == {S \in SUBSET TagNames : ta_b \in S => ta \in S}

\* the doc / title a definition has at the start, when it has one
DocOf(t) == <<"doc:">> \o t
TitleOf(t) == <<"title:">> \o t

InitTag ==
    /\ IdleAuth
    /\ IdleRefs
    /\ IdlePipe
    /\ IdleInput
    /\ \E extra \in {{}, TagNames}, docs \in SUBSET {ta, ta_b}, titles \in SUBSET {ta_b} :
         /\ nodetags \in UNION {[DataNodes -> UNION {[S -> Vals] : S \in TagSets}]}
         /\ tagdefs = [t \in extra \cup UNION {DOMAIN nodetags[n] : n \in DataNodes} |->
                          [doc |-> IF t \in docs THEN DocOf(t) ELSE None,
                           title |-> IF t \in titles THEN TitleOf(t) ELSE None,
                           isnow |-> None]]
    /\ retag = <<>>
    /\ tagargs = <<>>
    /\ prevargs = <<>>
    /\ before = <<>>
    /\ steps = <<>>
    /\ taggenr = <<>>
    /\ tagout = <<>>
    /\ nmoves = 0

NextTag == MoveTag

SpecTag == InitTag /\ [][NextTag]_vars

\* the upstream element of a node: the node with the path initPath gives it
Elem(n) == <<n, <<n>>>>

NoOmit == [omit_form |-> {}, omit_tag |-> {},
           omit_traversal_form |-> {}, omit_traversal_tag |-> {}]

\* the omit options noderefs is given, with the forms and tags the nodes of the
\* cortex may then have
OmitCases ==
    { [o |-> NoOmit, forms |-> {"fa", "fb"}, tags |-> {{}}],
      [o |-> [NoOmit EXCEPT !.omit_form = {"fb"}],
       forms |-> {"fa", "fb"}, tags |-> {{}}],
      [o |-> [NoOmit EXCEPT !.omit_traversal_form = {"fb"}],
       forms |-> {"fa", "fb"}, tags |-> {{}}],
      [o |-> [NoOmit EXCEPT !.omit_tag = {"t"}],
       forms |-> {"fa"}, tags |-> {{}, {"t"}}],
      [o |-> [NoOmit EXCEPT !.omit_traversal_tag = {"t"}],
       forms |-> {"fa"}, tags |-> {{}, {"t"}}],
      [o |-> [NoOmit EXCEPT !.omit_form = {"fb"}, !.omit_traversal_tag = {"t"}],
       forms |-> {"fa", "fb"}, tags |-> {{}, {"t"}}] }

MkOpts(o, unique, join, te) ==
    [degrees |-> 0, traverse_edge |-> te, join |-> join, unique |-> unique,
     omit_form |-> o.omit_form, omit_tag |-> o.omit_tag,
     omit_traversal_form |-> o.omit_traversal_form,
     omit_traversal_tag |-> o.omit_traversal_tag]

RefProps(r) == IF r = 0 THEN <<>> ELSE [ref |-> r]

\* small cortexes: every node of any form, with any tags, referring to any
\* other node or to none; the upstream starts with node 1
SmallCase ==
    \E oc \in OmitCases, unique \in BOOLEAN, join \in BOOLEAN :
    \E fm \in [1..NumNodes -> oc.forms], tg \in [1..NumNodes -> oc.tags] :
    \E rf \in [1..NumNodes -> 0..NumNodes] :
    \E st \in {<<1>>, <<1, 1>>, <<1, 2>>} :
        /\ \A n \in 1..NumNodes : rf[n] # n
        /\ Cardinality({n \in 1..NumNodes : tg[n] # {}}) <= 1
        /\ store = [form |-> fm, tags |-> tg,
                    props |-> [n \in 1..NumNodes |-> RefProps(rf[n])]]
        /\ opts = MkOpts(oc.o, unique, join, FALSE)
        /\ stream = [i \in 1..Len(st) |-> Elem(st[i])]

\* chain-shaped cortexes: every node but the first refers to the node before it
\* or to none; the upstream is any one or two nodes
ChainCase ==
    \E unique \in BOOLEAN, join \in BOOLEAN :
    \E rf \in [1..ChainLen -> 0..ChainLen] :
    \E st \in {<<a>> : a \in 1..ChainLen} \cup
               {<<a, b>> : a \in 1..ChainLen, b \in 1..ChainLen} :
        /\ \A n \in 1..ChainLen : rf[n] \in {0, n - 1}
        /\ store = [form |-> [n \in 1..ChainLen |-> "fa"],
                    tags |-> [n \in 1..ChainLen |-> {}],
                    props |-> [n \in 1..ChainLen |-> RefProps(rf[n])]]
        /\ opts = MkOpts(NoOmit, unique, join, FALSE)
        /\ stream = [i \in 1..Len(st) |-> Elem(st[i])]

\* the omit options noderefs is given on a cortex with an edge
EdgeOmits ==
    { NoOmit,
      [NoOmit EXCEPT !.omit_form = {"edge"}],
      [NoOmit EXCEPT !.omit_traversal_form = {"edge"}] }

\* cortexes with an edge: the last node is an edge whose n1 names an fa node
\* and whose n2 names any node, there or not; the others have no references
EdgeCase ==
    LET ends == 1..(NumNodes - 1)
    IN  \E o \in EdgeOmits, unique \in BOOLEAN, te \in BOOLEAN :
        \E fm \in [ends -> {"fa", "fb"}] :
        \E n1 \in {"fa"} \X ends, n2 \in {"fa", "fb"} \X ends :
        \E st \in {<<1>>, <<NumNodes>>, <<1, 2>>} :
            /\ store = [form |-> [n \in 1..NumNodes |->
                                    IF n \in ends THEN fm[n] ELSE "edge"],
                        tags |-> [n \in 1..NumNodes |-> {}],
                        props |-> [n \in 1..NumNodes |->
                                    IF n \in ends THEN <<>>
                                    ELSE [n1 |-> n1, n2 |-> n2]]]
            /\ opts = MkOpts(o, unique, FALSE, te)
            /\ stream = [i \in 1..Len(st) |-> Elem(st[i])]

InitRefs ==
    /\ IdleAuth
    /\ IdleTag
    /\ IdlePipe
    /\ IdleInput
    /\ SmallCase \/ ChainCase \/ EdgeCase
    /\ genr = stream
    /\ visited = {}
    /\ out = <<>>
    /\ enumerated = {}
    /\ enqueued = {}
    /\ prevout = {}
    /\ pc = "start"

NextRefs == Start \/ PullSource \/ Finish \/ Rerun

SpecRefs == InitRefs /\ [][NextRefs]_vars

\* the elements a pipeline is fed with: the same node may come with two paths
PipeElems == (1..NumBuids) \X (1..NumPaths)

\* the commands without arguments, and limit with each count
PipeCmds ==
    {[name |-> nm, count |-> 0, force |-> FALSE] :
        nm \in {"uniq", "count", "spin", "sudo"}}
    \cup {[name |-> "limit", count |-> n, force |-> FALSE] : n \in 0..MaxLimit}

\* the state of a query that has not been asked for anything yet
InitQuery ==
    /\ stg = [i \in 1..Len(cmds) |-> NewGen]
    /\ srcpos = 0
    /\ canceled = FALSE
    /\ delivered = <<>>
    /\ qstate = "run"
    /\ npulled = 0
    /\ nticks = 0
    /\ dels = <<>>
    /\ elevated = [c \in Ctxs |-> FALSE]
    /\ memo = <<>>
    /\ since = [k \in Calls |-> Never]
    /\ last = NoChk
    /\ nfill = 0
    /\ nbulk = 0

InitPipe ==
    /\ IdleTag
    /\ IdleRefs
    /\ IdleInput
    /\ cmds \in UNION {[1..n -> PipeCmds] : n \in 0..MaxCmds}
    /\ input \in UNION {[1..n -> PipeElems] : n \in 0..MaxInput}
    /\ cortex = <<>>
    /\ runtUser \in {[c \in Ctxs |-> IF c = QueryCtx THEN u ELSE Principal] :
                       u \in {NoUser, Principal}}
    /\ admin \in BOOLEAN
    /\ rules = {}
    /\ InitQuery

NextPipe == iterStormQuery \/ cancel

\* queries over limit, uniq, count, spin and sudo
SpecPipe == InitPipe /\ [][NextPipe]_vars

\* tags as delnode splits them: the sequence of their parts
DelTags == {<<>>, << <<"a">> >>, << <<"b">>, <<"a", "b">> >>}

\* the rules the principal of a delnode query may carry
DelRules ==
    { {},
      { <<"node:del">> },
      { <<"node:del">>, <<"tag:del">> },
      { <<"node:del", "fa">>, <<"tag:del">> },
      { <<"node:del">>, <<"tag:del", "a">> } }

DelCmd(f) == [name |-> "delnode", count |-> 0, force |-> f]
SudoCmd == [name |-> "sudo", count |-> 0, force |-> FALSE]
CountCmd == [name |-> "count", count |-> 0, force |-> FALSE]

InitDel ==
    /\ IdleTag
    /\ IdleRefs
    /\ IdleInput
    /\ \E f \in BOOLEAN :
          cmds \in { <<DelCmd(f)>>, <<SudoCmd, DelCmd(f)>>, <<CountCmd, DelCmd(f)>> }
    /\ \E n \in 0..NumDelNodes : input = [i \in 1..n |-> <<i, 1>>]
    /\ \E fm \in [1..NumDelNodes -> {"fa", "fb"}],
          tg \in [1..NumDelNodes -> DelTags] :
          cortex = [form |-> fm, tags |-> tg]
    /\ runtUser \in {[c \in Ctxs |-> IF c = QueryCtx THEN u ELSE Principal] :
                       u \in {NoUser, Principal}}
    /\ admin \in BOOLEAN
    /\ rules \in DelRules
    /\ InitQuery

\* queries that end in delnode
SpecDel == InitDel /\ [][NextPipe]_vars

\* entries of the ndefs option: two that resolve, a wrong form, a missing value
NdefOpts == { <<"fa", 1>>, <<"fb", 10>>, <<"fb", 1>>, <<"fa", 2>> }

\* entries of the idens option: 01, 0a and 0A name nodes, 02 and 0001 do not
IdenOpts == { <<"0", "1">>, <<"0", "a">>, <<"0", "A">>, <<"0", "2">>,
              <<"0", "0", "0", "1">> }

InitInput ==
    /\ IdleAuth
    /\ IdleTag
    /\ IdleRefs
    /\ IdlePipe
    /\ inputs = <<>>
    /\ \E nd \in UNION {[1..n -> NdefOpts] : n \in 0..MaxOpts},
          id \in UNION {[1..n -> IdenOpts] : n \in 0..MaxOpts} :
          qopts = [ndefs |-> nd, idens |-> id]
    /\ qvars \in [x : VarVals]
    /\ gipc = [phase |-> 1, idx |-> 0]
    /\ yields = <<>>

NextInput == getInput \/ addInput \/ setVar

\* the inputs of a query are attached, then pulled one by one
SpecInput == InitInput /\ [][NextInput]_vars

----------------------------------------------------------------------------
(* Claims about the permission gate, checked under SpecAuth and SpecMemo *)

LastKey == <<last.c, last.perm>>

LastIsCheck == last.op = "allowed"

\* C8: a denied check of a present principal in a non-elevated context leaves
\* no memo entry, and the identical check made next is evaluated again: it
\* raises AuthDeny again exactly when the rules (as they are then) still deny.
C8_DeniedNotCached ==
    [][ ( /\ LastIsCheck /\ last.res = "AuthDeny"
          /\ last'.tick # last.tick
          /\ last'.op = "allowed" /\ last'.c = last.c /\ last'.perm = last.perm
          /\ runtUser[last.c] # NoUser /\ ~elevated[last.c] )
        => ( /\ ~InMemo(memo, <<last.c, last.perm>>)
             /\ (last'.res = "AuthDeny") = ~UserAllowed(last.perm) ) ]_vars

\* C8 witness: a check was denied, left no entry, and the rules now allow its path
C8_Witness ==
    /\ LastIsCheck /\ last.res = "AuthDeny"
    /\ runtUser[last.c] # NoUser /\ ~elevated[last.c]
    /\ ~InMemo(memo, LastKey)
    /\ UserAllowed(last.perm)

C10_ElevatedAllows ==
    /\ [][\A c \in Ctxs : elevated[c] => elevated'[c]]_vars
    /\ []((last.op \in {"allowed", "bulk"} /\ last.res = "AuthDeny")
            => (~elevated[last.c] /\ runtUser[last.c] # NoUser))

\* C10 witness: after Sudo/elevate, a check of a present non-admin principal
\* whose rules deny the path has succeeded without any memo entry to answer it
C10_Witness ==
    /\ LastIsCheck /\ last.res = "ok"
    /\ elevated[last.c] /\ runtUser[last.c] # NoUser /\ ~admin
    /\ ~UserAllowed(last.perm)
    /\ since[LastKey] = 0


----------------------------------------------------------------------------
(* Claims about the tag rename, checked under SpecTag *)

Moved == nmoves > 0
OldTag == tagargs[1]
NewTag == tagargs[2]

\* the renamed name of a tag of the old tree: newtag plus the suffix after oldtag
Renamed(t) == NewTag \o StrFrom(t, Len(OldTag))

\* the tags of the old tree node n carried when the last movetag started
OldCarried(n) == {t \in DOMAIN before.tags[n] : InTree(t, OldTag)}

\* what C5 says of node n
RetaggedNode(n) ==
    /\ \A t \in OldCarried(n) :
          /\ Renamed(t) \in DOMAIN nodetags[n]
          /\ nodetags[n][Renamed(t)] = before.tags[n][t]
          /\ t \notin DOMAIN nodetags[n]
    /\ \A t \in DOMAIN nodetags[n] : ~InTree(t, OldTag)

\* C5 as stated: after movetag every data node carries, for each tag of the old
\* tree it carried, the renamed tag with the same value and the old tag no more;
\* no data node carries a tag of the old tree.
C5_Original == Moved => \A n \in DataNodes : RetaggedNode(n)

\* C5 amended: the same for every data node none of whose renamed tags is
\* itself oldtag or nested under oldtag.
C5_Retagged ==
    Moved => \A n \in DataNodes :
                (\A t \in OldCarried(n) : ~InTree(Renamed(t), OldTag))
                    => RetaggedNode(n)

\* C5 witness: a node carried oldtag and a tag under it with a time interval,
\* and the rename to another tree has moved both
C5_Witness ==
    /\ Moved
    /\ ~InTree(NewTag, OldTag) /\ ~InTree(OldTag, NewTag)
    /\ \E n \in DataNodes : \E t \in OldCarried(n) :
          /\ t # OldTag /\ OldTag \in OldCarried(n)
          /\ before.tags[n][t] = "(100,200)"
          /\ Renamed(t) \in DOMAIN nodetags[n]

\* the old-to-new mapping over the set T of old definitions
RenameMap(T) == [t \in T |-> Renamed(t)]

\* what C6 says of the set T of definitions of the old tree
IsNowSet(T) ==
    /\ \A t \in T : /\ t \in DOMAIN tagdefs
                    /\ tagdefs[t].isnow = Renamed(t)
                    /\ Renamed(t) \in DOMAIN tagdefs
    /\ retag = RenameMap(T)

\* C6 as stated: after movetag every tag definition of the old tree (oldtag or
\* nested under it) has isnow set to its renamed name, that definition exists,
\* and retag is exactly this mapping.
C6_Original ==
    Moved => IsNowSet({t \in DOMAIN tagdefs : InTree(t, OldTag)})

\* C6 amended: the same for every definition of the old tree that existed when
\* movetag lifted the definitions: those of the store before, and those of
\* oldtag and newtag that movetag makes first.
C6_IsNow ==
    Moved => IsNowSet({t \in (DOMAIN before.defs) \cup {OldTag, NewTag} :
                          InTree(t, OldTag)})

\* C6 witness: a definition nested under oldtag and oldtag itself were renamed
C6_Witness ==
    /\ Moved
    /\ \E t \in DOMAIN before.defs :
          /\ InTree(t, OldTag) /\ t # OldTag
          /\ tagdefs[t].isnow = Renamed(t)
          /\ tagdefs[OldTag].isnow = NewTag
          /\ OldTag # NewTag

Again == nmoves >= 2 /\ tagargs = prevargs

Unchanged == tagdefs = before.defs /\ nodetags = before.tags

\* C7 as stated: a movetag run a second time with the same arguments changes
\* nothing, for any store and any (oldtag, newtag).
C7_Original == Again => Unchanged

\* C7 amended: the same when newtag is oldtag or is not nested under oldtag.
C7_Idempotent ==
    (Again /\ (OldTag = NewTag \/ ~InTree(NewTag, OldTag))) => Unchanged

\* C7 witness: the second of two equal renames of a carried tree to another tree
C7_Witness ==
    /\ Again
    /\ ~InTree(NewTag, OldTag) /\ ~InTree(OldTag, NewTag)
    /\ \E n \in DataNodes : NewTag \in DOMAIN nodetags[n]
    /\ \E t \in DOMAIN tagdefs : t # OldTag /\ InTree(t, OldTag)

----------------------------------------------------------------------------
(***************************************************************************)
(* Claims about NoderefsCmd (specification SpecRefs)                       *)
(***************************************************************************)

\* the k-th node of the upstream
Src(k) == stream[k][1]

\* the positions of out holding a node the traversal yielded (not a --join)
RefOut == {i \in 1..Len(out) : out[i].kind = "ref"}

\* the node is of an omitted form or carries an omitted tag
Omitted(n) ==
    \/ store.form[n] \in opts.omit_form
    \/ \E t \in store.tags[n] : t \in opts.omit_tag

\* the node is of an omit-traversal form or carries an omit-traversal tag
NoTraverse(n) ==
    \/ store.form[n] \in opts.omit_traversal_form
    \/ \E t \in store.tags[n] : t \in opts.omit_traversal_tag

Cands(n) == {GetRefs(n)[i] : i \in 1..Len(GetRefs(n))}

\* the nodes of a path strictly between its two ends
Inner(p) == {p[i] : i \in 2..(Len(p) - 1)}

\* p leads from the source of its scope to node n, hop by hop over references
IsPathTo(p, k, n) ==
    /\ Len(p) >= 2
    /\ p[1] = Src(k)
    /\ p[Len(p)] = n
    /\ \A i \in 1..(Len(p) - 1) : p[i + 1] \in Cands(p[i])

\* C1: with unique=false every node yielded by the traversal of one source is
\* yielded once for that source, and none of them is the source itself: a node
\* is yielded again only for another source.
C1_DistinctPerSource ==
    opts.unique = FALSE =>
        \A i \in RefOut :
            /\ out[i].buid # Src(out[i].src)
            /\ \A j \in RefOut :
                   (out[j].src = out[i].src /\ out[j].buid = out[i].buid) => j = i

\* a node has been yielded for two sources, and the source of a scope was a
\* candidate again in its own scope (a cycle back to it)
C1_Witness ==
    /\ pc = "done"
    /\ opts.unique = FALSE
    /\ \E i \in RefOut, j \in RefOut :
           out[i].buid = out[j].buid /\ out[i].src # out[j].src
    /\ \E e \in enumerated : e[2] # Src(e[1]) /\ Src(e[1]) \in Cands(e[2])

ScopeSources(k) ==
    IF opts.unique = FALSE THEN {Src(k)} ELSE {Src(j) : j \in 1..k}

\* how often the traversal has yielded n in the scope of the k-th source
TimesYielded(n, k) ==
    Cardinality({i \in RefOut :
                    out[i].buid = n /\ (opts.unique # FALSE \/ out[i].src = k)})

RECURSIVE Prune(_)
Prune(S) ==
    IF \E n \in S : Cardinality((Cands(n) \cap S) \ {n}) <= 1
    THEN Prune(S \ {CHOOSE n \in S : Cardinality((Cands(n) \cap S) \ {n}) <= 1})
    ELSE S

\* the references form no cycle: no node refers to itself, no two nodes are
\* tied by two references, and the rest is a forest
Acyclic ==
    /\ \A n \in Nodes : n \notin Cands(n)
    /\ \A n \in Nodes : Cardinality(Cands(n)) = Len(GetRefs(n))
    /\ Prune(Nodes) = {}

\* C4 as claimed: on an acyclic graph, whatever unique, join and the omit sets
\* are, what degrees d yields is among what degrees d+1 yields.
C4_Original ==
    (pc = "done" /\ opts.degrees >= 2 /\ Acyclic) => prevout \subseteq OutSet

\* C4: on an acyclic graph, with unique=false or a single upstream node, what
\* degrees d yields is among what degrees d+1 yields.
C4_Monotone ==
    (/\ pc = "done"
     /\ opts.degrees >= 2
     /\ Acyclic
     /\ (opts.unique = FALSE \/ Len(stream) = 1))
        => prevout \subseteq OutSet

\* two sources on an acyclic graph with unique=false: degrees d yielded
\* something and degrees d+1 yields more
C4_Witness ==
    /\ pc = "done"
    /\ opts.degrees >= 2
    /\ Acyclic
    /\ opts.unique = FALSE
    /\ Len(stream) = 2
    /\ prevout # {}
    /\ prevout \subseteq OutSet
    /\ prevout # OutSet

----------------------------------------------------------------------------
(***************************************************************************)
(* Claims about the query pipeline (specifications SpecPipe and SpecDel)   *)
(***************************************************************************)

\* the commands of the query with the given name
CmdsNamed(nm) == {i \in 1..Len(cmds) : cmds[i].name = nm}

\* the principal of the query is present and administrative / not administrative
IsAdmin == runtUser[QueryCtx] # NoUser /\ admin
NonAdmin == runtUser[QueryCtx] # NoUser /\ ~admin

\* C11 as stated: the elevation flag of a query is set only when the principal
\* of the query is administrative; in every other case a Sudo stage that is
\* asked for an element fails with AuthDeny, the flag stays unset, and nothing
\* is pulled from its upstream or forwarded.
C11_Original ==
    /\ elevated[QueryCtx] => IsAdmin
    /\ \A i \in CmdsNamed("sudo") :
         (stg[i].at # "new" /\ ~IsAdmin)
           => /\ qstate = "AuthDeny"
              /\ ~elevated[QueryCtx]
              /\ stg[i].pulled = <<>> /\ stg[i].yielded = <<>>

\* C11 amended: the elevation flag is set only when the principal is absent or
\* administrative; for a present principal that is not administrative a Sudo
\* stage that is asked for an element fails with AuthDeny, the flag stays
\* unset, and nothing is pulled or forwarded.  An element is pulled or
\* forwarded by a Sudo stage only after the flag was set.
C11_Elevate ==
    /\ elevated[QueryCtx] => ~NonAdmin
    /\ \A i \in CmdsNamed("sudo") :
         /\ (stg[i].at # "new" /\ NonAdmin)
              => /\ qstate = "AuthDeny"
                 /\ ~elevated[QueryCtx]
                 /\ stg[i].pulled = <<>> /\ stg[i].yielded = <<>>
         /\ (stg[i].at # "new" /\ ~NonAdmin) => elevated[QueryCtx]
         /\ (stg[i].pulled # <<>> \/ stg[i].yielded # <<>>) => elevated[QueryCtx]

\* C11 witness: sudo, behind a command with elements to hand out, was refused
\* to a principal that is not administrative before anything left the input
C11_Witness ==
    /\ NonAdmin
    /\ qstate = "AuthDeny"
    /\ ~elevated[QueryCtx]
    /\ Len(cmds) = 2 /\ cmds[2].name = "sudo" /\ cmds[1].name = "count"
    /\ stg[2].at = "done"
    /\ input # <<>> /\ srcpos = 0

\* C12: tick is called once for every node that reaches the loop of
\* iterStormQuery, before the node is handed to the consumer; once the query is
\* canceled nothing more is delivered, the next node that reaches the loop ends
\* the query with Canceled, and the flag is never cleared.
C12_Cancel ==
    /\ [](nticks = npulled)
    /\ [](Len(delivered) = IF qstate = "Canceled" THEN nticks - 1 ELSE nticks)
    /\ [][canceled => (canceled' /\ delivered' = delivered)]_vars
    /\ [][(canceled /\ npulled' # npulled) => qstate' = "Canceled"]_vars
    /\ [](qstate = "Canceled" => canceled)

\* C12 witness: canceled after the first delivery, the query was ended by the
\* second node that reached the loop, with input left over
C12_Witness ==
    /\ qstate = "Canceled"
    /\ Len(delivered) = 1
    /\ npulled = 2
    /\ srcpos < Len(input)

Min(a, b) == IF a <= b THEN a ELSE b

\* C13: Limit(n) forwards exactly the first min(n, m) of the m elements of its
\* upstream, in order, and never pulls more than n elements from its upstream,
\* however long its consumer keeps asking.
C13_Limit ==
    \A i \in CmdsNamed("limit") :
        LET n == cmds[i].count
        IN  /\ Len(stg[i].pulled) <= n
            /\ stg[i].yielded = SubSeq(stg[i].pulled, 1, Min(n, Len(stg[i].pulled)))
            /\ (i = 1 /\ stg[i].at = "done")
                 => stg[i].yielded = SubSeq(input, 1, Min(n, Len(input)))

\* C13, the state that shows the over-fetch: limit has ended after forwarding
\* its n elements and has taken one element more from its upstream
C13_Overfetch ==
    \E i \in CmdsNamed("limit") :
        /\ stg[i].at = "done"
        /\ Len(stg[i].yielded) = cmds[i].count
        /\ Len(stg[i].pulled) = cmds[i].count + 1

\* C13, what does hold of the code: the forwarded elements are the first
\* min(n, m), in order, and at most n + 1 elements are pulled
C13_Forwarded ==
    \A i \in CmdsNamed("limit") :
        LET n == cmds[i].count
        IN  /\ Len(stg[i].pulled) <= n + 1
            /\ stg[i].yielded = SubSeq(stg[i].pulled, 1, Min(n, Len(stg[i].pulled)))
            /\ (i = 1 /\ stg[i].at = "done")
                 => stg[i].yielded = SubSeq(input, 1, Min(n, Len(input)))

RECURSIVE FirstOccs(_, _)
\* the elements of s whose buid is neither in seen nor carried by an earlier
\* element of s, in the order of s
FirstOccs(s, seen) ==
    IF s = <<>> THEN <<>>
    ELSE IF Head(s)[1] \in seen THEN FirstOccs(Tail(s), seen)
    ELSE <<Head(s)>> \o FirstOccs(Tail(s), seen \cup {Head(s)[1]})

\* C14: Uniq forwards an element iff it is the first element of its upstream
\* with its buid: what it has forwarded is the subsequence of the first
\* occurrences, in upstream order and with the paths of those occurrences.
C14_Uniq ==
    \A i \in CmdsNamed("uniq") :
        /\ stg[i].yielded = FirstOccs(stg[i].pulled, {})
        /\ (i = 1 /\ stg[i].at = "done")
             => (stg[i].pulled = input /\ stg[i].yielded = FirstOccs(input, {}))

\* C14 witness: uniq has ended after dropping a later element that carried the
\* buid of an earlier one with another path
C14_Witness ==
    /\ cmds # <<>> /\ cmds[1].name = "uniq" /\ stg[1].at = "done"
    /\ \E j, k \in 1..Len(input) :
         /\ j < k
         /\ input[j][1] = input[k][1] /\ input[j][2] # input[k][2]
         /\ \A x \in 1..Len(stg[1].yielded) : stg[1].yielded[x] # input[k]
    /\ Len(stg[1].yielded) = 2

\* the upstream of command i has handed out all it had, and command i took it
Drained(i) ==
    IF i = 1 THEN stg[i].pulled = input
    ELSE stg[i - 1].at = "done" /\ stg[i].pulled = stg[i - 1].yielded

\* C15: in a query that ran to its end, a Count that was asked for an element
\* has drained its upstream, has forwarded every element of it unchanged and in
\* order and has reported their number, whatever the commands after it asked
\* for; a Spin that was asked for an element has drained its upstream and
\* forwarded nothing.
C15_Drain ==
    qstate = "done" =>
        /\ \A i \in CmdsNamed("count") :
             stg[i].at # "new" =>
                /\ Drained(i)
                /\ stg[i].yielded = stg[i].pulled
                /\ stg[i].printed = << <<"Counted", Len(stg[i].pulled)>> >>
        /\ \A i \in CmdsNamed("spin") :
             stg[i].at # "new" => (Drained(i) /\ stg[i].yielded = <<>>)

\* C15, the state that shows the failure: the query `count | limit n` has ended
\* while count is suspended at a yield, with input left and nothing reported
C15_NotDrained ==
    /\ qstate = "done"
    /\ Len(cmds) = 2 /\ cmds[1].name = "count" /\ cmds[2].name = "limit"
    /\ stg[1].at = "run"
    /\ Len(stg[1].pulled) < Len(input)
    /\ stg[1].printed = <<>>

\* C15, what does hold of the code: Count forwards what it pulls, unchanged and
\* in order, and reports the number only when its upstream has ended while
\* Count was being asked; the part about Spin holds as stated
C15_Lazy ==
    /\ \A i \in CmdsNamed("count") :
         /\ stg[i].yielded = stg[i].pulled
         /\ stg[i].printed # <<>>
              => (Drained(i) /\ stg[i].printed = << <<"Counted", Len(stg[i].pulled)>> >>)
    /\ qstate = "done" =>
         \A i \in CmdsNamed("spin") :
             stg[i].at # "new" => (Drained(i) /\ stg[i].yielded = <<>>)

\* the delnode command of the query (the last one, in SpecDel)
DelIdx == Len(cmds)

\* the buids of a sequence of elements
Buids(s) == [j \in 1..Len(s) |-> s[j][1]]

\* the running query may delete node n: every tag:del check for a tag of the
\* node and the node:del check for its form returns
Permitted(n) ==
    \/ runtUser[QueryCtx] = NoUser
    \/ elevated[QueryCtx]
    \/ /\ \A j \in 1..Len(cortex.tags[n]) :
            \E r \in rules : IsPrefix(r, <<"tag:del">> \o cortex.tags[n][j])
       /\ \E r \in rules : IsPrefix(r, <<"node:del", cortex.form[n]>>)

\* C16: DelNode deletes a node only when the tag:del check for each of its tags
\* and the node:del check for its form have succeeded; when a check is denied
\* on the k-th node the query ends with AuthDeny, nodes 1..k-1 are deleted and
\* stay deleted, and the k-th and all later nodes are not deleted.
C16_Delete ==
    /\ [](\A j \in 1..Len(dels) : Permitted(dels[j]))
    /\ [](dels = SubSeq(Buids(input), 1, Len(dels)))
    /\ []((qstate = "AuthDeny" /\ stg[DelIdx].pulled # <<>>)
            => LET k == Len(stg[DelIdx].pulled)
               IN  /\ ~Permitted(stg[DelIdx].pulled[k][1])
                   /\ dels = SubSeq(Buids(input), 1, k - 1))
    /\ []((qstate = "done" /\ stg[DelIdx].at = "done") => dels = Buids(input))
    /\ [][ /\ Len(dels') >= Len(dels)
           /\ SubSeq(dels', 1, Len(dels)) = dels ]_vars
    /\ [][ qstate # "run" => dels' = dels ]_vars

\* C16 witness: the tag:del check for a tag of the third node was denied, after
\* the first two nodes were deleted; the node:del check would have passed
C16_Witness ==
    /\ qstate = "AuthDeny"
    /\ Len(stg[DelIdx].pulled) = 3
    /\ dels = <<1, 2>>
    /\ cortex.tags[1] # <<>>
    /\ \E r \in rules : IsPrefix(r, <<"node:del", cortex.form[3]>>)

\* delnode is run with --force by a present principal that is not administrative
ForceRefused == cmds[DelIdx].force /\ NonAdmin

\* C17: DelNode with force set and a present, non-administrative principal
\* fails with AuthDeny at its first demand, once (the query is over), before
\* anything is pulled from its upstream and before any node is deleted; in
\* every other case a query ends with AuthDeny only through a denied
\* permission check on a pulled node or through a refused sudo.
C17_Force ==
    /\ []((ForceRefused /\ stg[DelIdx].at # "new")
            => /\ qstate = "AuthDeny"
               /\ stg[DelIdx].pulled = <<>>
               /\ \A i \in 1..(DelIdx - 1) : stg[i].at = "new"
               /\ srcpos = 0
               /\ dels = <<>>)
    /\ [][qstate = "run"]_vars
    /\ []((~ForceRefused /\ qstate = "AuthDeny")
            => \/ /\ stg[DelIdx].pulled # <<>>
                  /\ ~Permitted(stg[DelIdx].pulled[Len(stg[DelIdx].pulled)][1])
               \/ /\ cmds[1].name = "sudo" /\ NonAdmin
                  /\ stg[DelIdx].pulled = <<>>)

\* C17 witness: `count | delnode --force` of a principal whose rules allow
\* every deletion was refused with nothing pulled and nothing deleted
C17_Witness ==
    /\ ForceRefused
    /\ qstate = "AuthDeny"
    /\ Len(cmds) = 2 /\ cmds[1].name = "count" /\ stg[1].at = "new"
    /\ Len(input) = NumDelNodes
    /\ \A n \in 1..NumDelNodes : Permitted(n)
    /\ dels = <<>>

----------------------------------------------------------------------------
(* Further claims about NoderefsCmd (specification SpecRefs) *)

\* C18: with degrees < 1 the traversal fails with BadOperArg at its first
\* demand, before it pulls anything from its upstream: nothing is yielded (not
\* even a joined source) and no adjacency is enumerated; with degrees >= 1 it
\* does not fail.
C18_BadDegrees ==
    /\ opts.degrees < 1 =>
         /\ pc \in {"start", "error"}
         /\ genr = stream
         /\ out = <<>>
         /\ enumerated = {} /\ enqueued = {}
    /\ pc = "error" => opts.degrees < 1

\* C18 witness: noderefs --join with degrees 0 has failed with its upstream of
\* two sources untouched
C18_Witness ==
    /\ pc = "error"
    /\ opts.degrees = 0
    /\ opts.join
    /\ Len(stream) = 2 /\ genr = stream
    /\ out = <<>>

\* C19 as stated: with --unique no buid appears more than once in the output
\* of the command, over the whole input stream, be it yielded as a reference or
\* (with --join) as a joined source.
C19_Unique ==
    opts.unique =>
        \A i, j \in 1..Len(out) : out[i].buid = out[j].buid => i = j

\* C19, the state that shows the failure: with --unique and --join, a node that
\* was yielded as a reference of the first source is yielded again as the
\* joined second source
C19_Twice ==
    /\ pc = "done"
    /\ opts.unique /\ opts.join
    /\ \E i, j \in 1..Len(out) :
         /\ i < j
         /\ out[i].buid = out[j].buid
         /\ out[i].kind = "ref" /\ out[i].src = 1
         /\ out[j].kind = "join" /\ out[j].src = 2

\* C19, what does hold of the code: with --unique no buid is yielded twice as
\* a reference, over the whole input stream
C19_RefsUnique ==
    opts.unique =>
        \A i, j \in 1..Len(out) :
            (out[i].kind = "ref" /\ out[j].kind = "ref" /\ out[i].buid = out[j].buid)
                => i = j

----------------------------------------------------------------------------
(* Claims about Runtime.getInput (specification SpecInput) *)

IsNode(n) == n # NoNode

\* the nodes the entries es resolve to under R, in order, None left out
Found(es, R(_)) == SelectSeq([j \in 1..Len(es) |-> R(es[j])], IsNode)

ByIden(iden) == getNodeByBuid(uhex(iden))

\* the nodes the claim expects from getInput, in order
Expected ==
    inputs \o Found(qopts.ndefs, getNodeByNdef) \o Found(qopts.idens, ByIden)

YieldedNodes == [j \in 1..Len(yields) |-> yields[j].node]

----------------------------------------------------------------------------
(* Claims about the rounds of NoderefsCmd (specification SpecRefs) *)

\* the nodes next to n: the targets of its properties, the nodes whose
\* properties name it, and the nodes holding its ndef in an Ndef property
RawCands(n) ==
    LET ndefin(fp) == GetNodesBy(fp, Ndef(n))
        byndef == Flat([i \in 1..Len(NdefProps) |-> ndefin(NdefProps[i])])
        all == PivotOut(n) \o PivotIn(n) \o byndef
    IN  {all[i] : i \in 1..Len(all)}

\* the neighbours of n: as they are stored, or as getRefs hands them out
Adj(n, raw) == IF raw THEN RawCands(n) ELSE Cands(n)

RECURSIVE Bfs(_, _, _, _)
\* (node, distance) for the nodes first reached at distance d or more from the
\* frontier `front`, the nodes in `seen` being nearer
Bfs(front, seen, d, raw) ==
    IF front = {} THEN {}
    ELSE LET nxt == UNION {Adj(n, raw) : n \in front} \ seen
         IN  {<<n, d>> : n \in nxt} \cup Bfs(nxt, seen \cup nxt, d + 1, raw)

\* (node, distance) for the nodes within `degrees` hops of src
Within(src, raw) ==
    {p \in Bfs({src}, {src}, 1, raw) : p[2] <= opts.degrees}

\* (node, round) for what the traversal of source k yielded
YieldedIn(k) == {<<out[i].buid, out[i].round>> : i \in {j \in RefOut : out[j].src = k}}

\* the sources the command has pulled so far
Pulled == 1..(Len(stream) - Len(genr))

NoOmits ==
    /\ opts.omit_form = {} /\ opts.omit_tag = {}
    /\ opts.omit_traversal_form = {} /\ opts.omit_traversal_tag = {}

\* the path of a yielded node is the path of the node it was discovered from,
\* a node yielded one round earlier or the source, with one hop more
PathExtends(i) ==
    LET p == out[i].path
        prefix == SubSeq(p, 1, Len(p) - 1)
    IN  /\ p[Len(p)] = out[i].buid
        /\ IF out[i].round = 1 THEN prefix = stream[out[i].src][2]
           ELSE \E j \in RefOut : /\ out[j].src = out[i].src
                                  /\ out[j].round = out[i].round - 1
                                  /\ out[j].path = prefix

OutOf(k) == {i \in 1..Len(out) : out[i].src = k}

\* the element at position i of out, as the consumer gets it
OutElem(i) == <<out[i].buid, out[i].path>>

Upstream == {stream[k] : k \in 1..Len(stream)}

\* C22: with join=true every upstream (node, path) pulled is emitted once and
\* unmodified, after all results of the source before it and before the
\* results of its own traversal; with join=false no upstream element is
\* forwarded: the output holds traversal results only.
C22_Join ==
    pc \in {"pull", "done"} =>
        /\ \A i, j \in 1..Len(out) : i < j => out[i].src <= out[j].src
        /\ opts.join =>
             \A k \in Pulled :
                 \E i \in OutOf(k) :
                     /\ out[i].kind = "join"
                     /\ OutElem(i) = stream[k]
                     /\ \A j \in OutOf(k) \ {i} : j > i /\ OutElem(j) # stream[k]
        /\ ~opts.join =>
             \A i \in 1..Len(out) : out[i].kind = "ref" /\ OutElem(i) \notin Upstream

\* C22 witness: with join=true both of two sources were emitted, each before
\* its own results and the second after the results of the first
C22_Witness ==
    /\ pc = "done"
    /\ opts.join
    /\ Len(stream) = 2
    /\ Len(out) >= 4
    /\ OutElem(1) = stream[1] /\ out[2].src = 1 /\ out[2].kind = "ref"
    /\ \E i \in 3..(Len(out) - 1) :
         /\ OutElem(i) = stream[2] /\ out[i].kind = "join"
         /\ out[i - 1].src = 1
         /\ out[i + 1].src = 2 /\ out[i + 1].kind = "ref"

----------------------------------------------------------------------------
(* Further claims about the tag rename (specification SpecTag) *)

\* the definitions of the old tree in the store when the last movetag started
OldDefs == {t \in DOMAIN before.defs : InTree(t, OldTag)}

\* the doc and title the definition `name` had when the last movetag started
DocBefore(name) ==
    IF name \in DOMAIN before.defs THEN before.defs[name].doc ELSE None
TitleBefore(name) ==
    IF name \in DOMAIN before.defs THEN before.defs[name].title ELSE None

\* what C23 says of the old definition t
Carried(t) ==
    /\ Renamed(t) \in DOMAIN tagdefs
    /\ tagdefs[Renamed(t)].doc =
          IF DocBefore(t) # None THEN DocBefore(t) ELSE DocBefore(Renamed(t))
    /\ tagdefs[Renamed(t)].title =
          IF TitleBefore(t) # None THEN TitleBefore(t) ELSE TitleBefore(Renamed(t))

\* C23: after movetag, for every old definition of the old tree, the exact
\* match included, the renamed definition exists and carries the doc and the
\* title of the old definition when it had one; a doc or title the old
\* definition did not have is not written.
C23_Original == Moved => \A t \in OldDefs : Carried(t)

\* C23, where it fails: the definition of oldtag had a doc, and after the rename
\* to another tag the definition of newtag has none
C23_ExactLost ==
    /\ Moved
    /\ OldTag # NewTag
    /\ DocBefore(OldTag) # None
    /\ tagdefs[NewTag].doc = None

\* the part of C23 that holds: the same for the definitions nested under
\* oldtag, when newtag is not in the old tree
C23_Nested ==
    (Moved /\ ~InTree(NewTag, OldTag)) => \A t \in OldDefs \ {OldTag} : Carried(t)

\* the delTag calls made on node n by the last movetag, in order
IsDel(e) == e.op = "delTag"
Dels(n) == SelectSeq(steps[n], IsDel)

\* the parent of a tag name: the name up to its last '.', None for a root tag
ParentOf(t) ==
    LET dots == {i \in 1..Len(t) : t[i] = "."}
    IN  IF dots = {} THEN None
        ELSE SubSeq(t, 1, (CHOOSE i \in dots : \A j \in dots : j <= i) - 1)

\* every tag of the map `tags` has its parent in the map
Closed(tags) ==
    \A t \in DOMAIN tags : ParentOf(t) = None \/ ParentOf(t) \in DOMAIN tags

\* the old applications of node n are taken in reverse lexical order, a child
\* before its parent
ReverseOrder(n) ==
    \A i, j \in 1..Len(Dels(n)) :
        /\ i < j => StrLess(Dels(n)[j].name, Dels(n)[i].name)
        /\ (Dels(n)[i].name # Dels(n)[j].name
              /\ InTree(Dels(n)[j].name, Dels(n)[i].name)) => j < i

\* the old application t of node n has not been removed by the first i calls
Pending(n, t, i) ==
    ~\E k \in 1..i : IsDel(steps[n][k]) /\ steps[n][k].name = t

Lifted == {t \in (DOMAIN before.defs) \cup {OldTag, NewTag} : InTree(t, OldTag)}

\* the definitions outside the old tree get no isnow, are not in retag, and the
\* only definitions made are oldtag, newtag and the renamed names of the old tree
DefsFramed ==
    /\ \A t \in DOMAIN before.defs :
          ~InTree(t, OldTag) => /\ t \in DOMAIN tagdefs
                                /\ tagdefs[t].isnow = before.defs[t].isnow
                                /\ t \notin DOMAIN retag
    /\ (DOMAIN tagdefs) \ (DOMAIN before.defs)
          \subseteq {OldTag, NewTag} \cup {Renamed(t) : t \in Lifted}

\* the application t node n carried before the rename is as it was
Kept(n, t) ==
    t \in DOMAIN nodetags[n] /\ nodetags[n][t] = before.tags[n][t]

\* C25 as stated: movetag changes only the renamed subtree: a definition outside
\* it (such as the sibling ab of a) gets no isnow and no renamed counterpart,
\* every application outside it stays on its node with its value, and the
\* upstream is yielded unchanged and in order.
C25_Original ==
    Moved =>
        /\ DefsFramed
        /\ \A n \in DataNodes : \A t \in DOMAIN before.tags[n] :
              ~InTree(t, OldTag) => Kept(n, t)
        /\ tagout = taggenr

\* C25 amended: the same, for every application outside the subtree whose name
\* is not the renamed name of an old application of its node.
C25_Frame ==
    Moved =>
        /\ DefsFramed
        /\ \A n \in DataNodes : \A t \in DOMAIN before.tags[n] :
              (~InTree(t, OldTag) /\ t \notin {Renamed(u) : u \in OldCarried(n)})
                  => Kept(n, t)
        /\ tagout = taggenr

\* C25 witness: a was renamed on a node that carries the sibling ab too, with
\* a definition of ab in the store, and two upstream elements were yielded
C25_Witness ==
    /\ Moved
    /\ OldTag = ta /\ NewTag = tb
    /\ tab \in DOMAIN before.defs
    /\ Len(tagout) = 2
    /\ \E n \in DataNodes :
          /\ {ta, tab} \subseteq DOMAIN before.tags[n]
          /\ before.tags[n][tab] = "(100,200)"
          /\ Kept(n, tab)
          /\ tb \in DOMAIN nodetags[n] /\ ta \notin DOMAIN nodetags[n]

----------------------------------------------------------------------------
(* Claims about dangling references (specification SpecRefs) *)

\* the value of property `name` of node n names a node that is not there
Dangles(n, name) ==
    /\ HasProp(n, name)
    /\ LET valu == store.props[n][name]
       IN  IF IsEdge(n) THEN ~(valu[2] \in Nodes /\ store.form[valu[2]] = valu[1])
           ELSE ~(valu \in Nodes /\ store.form[valu] = "fa")

\* the nodes a property of n names
LiveOut(n) ==
    {m \in Nodes : \E name \in DOMAIN store.props[n] :
        IF IsEdge(n) THEN store.props[n][name] = <<store.form[m], m>>
        ELSE store.props[n][name] = m /\ store.form[m] = "fa"}

\* the nodes naming n in a property typed with the form of n
LiveIn(n) ==
    {m \in Nodes : /\ ~IsEdge(m) /\ store.form[n] = "fa"
                   /\ HasProp(m, "ref") /\ store.props[m]["ref"] = n}

\* the edges naming n as n1 or n2 and, with --traverse-edge, the nodes that are
\* there on their other side
LiveEdge(n) ==
    LET me == <<store.form[n], n>>
        edges == {e \in Nodes : IsEdge(e) /\ me \in {store.props[e]["n1"], store.props[e]["n2"]}}
        far(e) == IF store.props[e]["n1"] = me THEN store.props[e]["n2"]
                  ELSE store.props[e]["n1"]
    IN  IF opts.traverse_edge
        THEN {m \in Nodes : \E e \in edges : far(e) = <<store.form[m], m>>}
        ELSE edges

\* the neighbours of n that are there
Live(n) == LiveOut(n) \cup LiveIn(n) \cup LiveEdge(n)

\* the neighbour m was yielded for source k, or is one doRefs passes over: the
\* source itself, an omitted node, or with --unique a node seen for a source before
Reached(k, m) ==
    \/ m = Src(k)
    \/ Omitted(m)
    \/ \E i \in RefOut : out[i].src = k /\ out[i].buid = m
    \/ /\ opts.unique
       /\ \/ \E j \in 1..(k - 1) : Src(j) = m
          \/ \E i \in RefOut : out[i].src < k /\ out[i].buid = m

\* C26: a reference to a node that is not there raises no error: the command
\* fails for degrees < 1 only, every source pulled has its references
\* enumerated, and every neighbour that is there of every enumerated node is
\* yielded (or passed over as visited or omitted), whatever dangles beside it.
C26_Dangling ==
    /\ pc = "error" => opts.degrees < 1
    /\ pc \in {"pull", "done"} =>
          /\ \A k \in Pulled : <<k, Src(k)>> \in enumerated
          /\ \A e \in enumerated : \A m \in Live(e[2]) : Reached(e[1], m)
          /\ \A i \in RefOut : out[i].buid \in Nodes

\* C26 witness: the first source has a property naming a node that is not
\* there and a neighbour that was yielded for it, and a second source was
\* pulled after it and had a neighbour yielded
C26_Witness ==
    /\ pc = "done"
    /\ Len(stream) = 2
    /\ \E name \in DOMAIN store.props[Src(1)] : Dangles(Src(1), name)
    /\ \E i \in RefOut : out[i].src = 1 /\ out[i].buid \in Live(Src(1))
    /\ \E i \in RefOut : out[i].src = 2 /\ out[i].buid \in Live(Src(2))

\* C26 witness under --traverse-edge is an edge whose far side is not there
C26_EdgeDangles ==
    /\ pc = "done"
    /\ opts.traverse_edge
    /\ \E e \in Nodes : /\ IsEdge(e)
                        /\ store.props[e]["n1"] = <<store.form[Src(1)], Src(1)>>
                        /\ Dangles(e, "n2")
                        /\ e \notin OutSet

====
